---- MODULE Spec2Model ----
(***************************************************************************)
(* Model of packages/expo-auth-session/src/Errors.ts: the errorCodeMessages *)
(* catalog and the ResponseError / AuthError constructors.                  *)
(*                                                                          *)
(* JavaScript values are tagged records [t |-> type, v |-> text] so that    *)
(* strings, undefined, null, functions and objects can be compared.  The    *)
(* caller's input objects live in a heap (a sequence indexed by reference); *)
(* an error's params field holds a reference, as in the source.             *)
(***************************************************************************)
EXTENDS Integers, Sequences, FiniteSets, TLC

VARIABLES heap, calls, catalog, mutations

vars == <<heap, calls, catalog, mutations>>

(* ---------------------------- bounds ----------------------------------- *)

MaxCalls == 2
MaxMutations == 1

(* ---------------------------- JS values -------------------------------- *)

Str(s) == [t |-> "string", v |-> s]
Undefined == [t |-> "undefined", v |-> ""]
Null == [t |-> "null", v |-> ""]
Fn(name) == [t |-> "function", v |-> name]
ObjectPrototype == [t |-> "object", v |-> "Object.prototype"]
Root == [t |-> "root", v |-> ""]
Table(k) == [t |-> "table", v |-> k]

\* if (x): JavaScript truthiness
Truthy(x) ==
  CASE x.t = "string" -> x.v # ""
    [] x.t \in {"undefined", "null"} -> FALSE
    [] OTHER -> TRUE

\* x + '' and template-literal interpolation: string conversion
ToStr(x) ==
  CASE x.t = "string" -> x.v
    [] x.t = "function" -> "function " \o x.v \o "() { [native code] }"
    [] x.t = "undefined" -> "undefined"
    [] x.t = "null" -> "null"
    [] OTHER -> "[object Object]"

\* a ?? b
Coalesce(a, b) == IF a.t \in {"undefined", "null"} THEN b ELSE a

(* ---------------------------- the catalog ------------------------------ *)

\* The message texts of lines 33-59.  A TLA+ string literal cannot hold a
\* backquote, so the backquotes of five messages are written as ' here.

errorCodeMessages ==
  [auth |->
    [invalid_request |-> "The request is missing a required parameter, includes an invalid parameter value, includes a parameter more than once, or is otherwise malformed.",
     unauthorized_client |-> "The client is not authorized to request an authorization code using this method.",
     access_denied |-> "The resource owner or authorization server denied the request.",
     unsupported_response_type |-> "The authorization server does not support obtaining an authorization code using this method.",
     invalid_scope |-> "The requested scope is invalid, unknown, or malformed.",
     server_error |-> "The authorization server encountered an unexpected condition that prevented it from fulfilling the request. (This error code is needed because a 500 Internal Server Error HTTP status code cannot be returned to the client via an HTTP redirect.)",
     temporarily_unavailable |-> "The authorization server is currently unable to handle the request due to a temporary overloading or maintenance of the server.  (This error code is needed because a 503 Service Unavailable HTTP status code cannot be returned to the client via an HTTP redirect.)",
     interaction_required |-> "Auth server requires user interaction of some form to proceed. This error may be returned when the prompt parameter value in the auth request is none, but the auth request cannot be completed without displaying a user interface for user interaction.",
     login_required |-> "Auth server requires user authentication. This error may be returned when the prompt parameter value in the auth request is none, but the auth request cannot be completed without displaying a user interface for user authentication.",
     account_selection_required |-> "User is required to select a session at the auth server. The user may be authenticated at the auth server with different associated accounts, but the user did not select a session. This error may be returned when the prompt parameter value in the auth request is 'none', but the auth request cannot be completed without displaying a user interface to prompt for a session to use.",
     consent_required |-> "Auth server requires user consent. This error may be returned when the prompt parameter value in the auth request is none, but the auth request cannot be completed without displaying a user interface for user consent.",
     invalid_request_uri |-> "The 'request_uri' in the auth request returns an error or contains invalid data.",
     invalid_request_object |-> "The request parameter contains an invalid request object.",
     request_not_supported |-> "The OP does not support use of the 'request' parameter defined in Section 6. (https://openid.net/specs/openid-connect-core-1_0.html#JWTRequests)",
     request_uri_not_supported |-> "The OP does not support use of the 'request_uri' parameter defined in Section 6. (https://openid.net/specs/openid-connect-core-1_0.html#JWTRequests)",
     registration_not_supported |-> "The OP does not support use of the 'registration' parameter defined in Section 7.2.1. (https://openid.net/specs/openid-connect-core-1_0.html#RegistrationParameter)"]]

\* the own property names of Object.prototype, which every object literal
\* (the catalog and its "auth" table included) inherits
ObjectPrototypeKeys ==
  {"constructor", "__proto__", "hasOwnProperty", "isPrototypeOf",
   "propertyIsEnumerable", "toLocaleString", "toString", "valueOf",
   "__defineGetter__", "__defineSetter__", "__lookupGetter__", "__lookupSetter__"}

\* o[key] where key is not an own property of the object literal o
InheritedProp(key) ==
  IF key = "constructor" THEN Fn("Object")
  ELSE IF key = "__proto__" THEN ObjectPrototype
  ELSE IF key \in ObjectPrototypeKeys THEN Fn(key)
  ELSE Undefined

\* recv[key], the property read of line 85; cat is the current value of
\* errorCodeMessages.  A read on undefined or null is a TypeError, which the
\* constructor tests before it calls this.
GetProp(cat, recv, key) ==
  CASE recv.t = "root" ->
         IF key \in DOMAIN cat THEN Table(key) ELSE InheritedProp(key)
    [] recv.t = "table" ->
         IF key \in DOMAIN cat[recv.v] THEN Str(cat[recv.v][key]) ELSE InheritedProp(key)
    [] OTHER -> Undefined

\* a property read on undefined or null throws TypeError
ReadThrows(recv) == recv.t \in {"undefined", "null"}

(* ---------------------------- input records ---------------------------- *)

\* params.key of an input record: undefined when the key is absent
Get(rec, key) == IF key \in DOMAIN rec THEN Str(rec[key]) ELSE Undefined

\* the values the caller puts into input records
KnownCodes == DOMAIN errorCodeMessages.auth
UnknownCodes == {"totally_made_up", "constructor", "__proto__"}
Codes == KnownCodes \cup UnknownCodes
Descriptions == {"", "custom text"}
Uris == {"https://example.com/error"}
States == {"xyz"}
ExtraKey == "errorCodeType"
ExtraValues == {"token"}
Categories == {"auth", "token"}

OptionalKeys == {"error_description", "error_uri", "state", ExtraKey}

ValuesOf(key) ==
  CASE key = "error" -> Codes
    [] key = "error_description" -> Descriptions
    [] key = "error_uri" -> Uris
    [] key = "state" -> States
    [] OTHER -> ExtraValues

\* ResponseErrorConfig / AuthErrorConfig: error is required, the rest optional,
\* extra fields allowed (Record<string, any>)
InputRecords ==
  UNION { { r \in [{"error"} \cup K -> Codes \cup Descriptions \cup Uris \cup States \cup ExtraValues] :
              \A k \in DOMAIN r : r[k] \in ValuesOf(k) } : K \in SUBSET OptionalKeys }

(* ---------------------------- constructors ----------------------------- *)

\* the value of a constructor call that threw: no error object exists
NoError ==
  [code |-> "", message |-> "", description |-> Undefined, uri |-> Undefined,
   params |-> 0, state |-> Undefined]

\* variant of ErrorMessage: the suffix test is "error_description !== undefined"
ErrorMessageSuffixIfPresent(message, error_description) ==
  IF Truthy(message)
  THEN ToStr(message) \o (IF error_description # Undefined
                          THEN "\nMore info: " \o ToStr(error_description)
                          ELSE "")
  ELSE IF Truthy(error_description) THEN ToStr(error_description)
  ELSE "An unknown error occurred"

\* lines 86-93: the message passed to super()
ErrorMessage(message, error_description) ==
  IF Truthy(message)
  THEN ToStr(message) \o (IF Truthy(error_description)
                          THEN "\nMore info: " \o ToStr(error_description)
                          ELSE "")
  ELSE IF Truthy(error_description) THEN ToStr(error_description)
  ELSE "An unknown error occurred"

\* line 95: this.description = error_description ?? message
Description(message, error_description) == Coalesce(error_description, message)

\* variant of StoreParams: this.params = { ...params }, a fresh object
StoreParamsCopy(h, ref) == [heap |-> Append(h, h[ref]), params |-> Len(h) + 1]

\* variant of StoreParams: the extra fields are deleted from the record
\* before it is stored
StoreParamsKnownFields(h, ref) ==
  [heap |-> [h EXCEPT ![ref] =
               [k \in DOMAIN h[ref] \cap {"error", "error_description", "error_uri", "state"} |-> h[ref][k]]],
   params |-> ref]

\* line 97: this.params = params stores the reference it was given; the heap
\* is not written
StoreParams(h, ref) == [heap |-> h, params |-> ref]

\* variant of ResponseError: a resolved fallback message is cached in the
\* catalog, errorCodeMessages[errorCodeType][error] = errorMessage
ResponseErrorCaching(cat, h, ref, errorCodeType) ==
  LET params == h[ref]
      error == Get(params, "error")
      error_description == Get(params, "error_description")
      table == GetProp(cat, Root, errorCodeType)
  IN IF ReadThrows(table)
     THEN [threw |-> TRUE, error |-> NoError, heap |-> h, catalog |-> cat]
     ELSE LET message == GetProp(cat, table, error.v)
              errorMessage == ErrorMessage(message, error_description)
          IN [threw |-> FALSE,
              error |-> [code |-> error.v,
                         message |-> errorMessage,
                         description |-> Description(message, error_description),
                         uri |-> Get(params, "error_uri"),
                         params |-> ref,
                         state |-> Undefined],
              heap |-> h,
              catalog |-> IF Truthy(message) \/ table.t # "table" THEN cat
                          ELSE [cat EXCEPT ![table.v] =
                                  [k \in DOMAIN cat[table.v] \cup {error.v} |->
                                     IF k = error.v THEN errorMessage ELSE cat[table.v][k]]]]

\* new ResponseError(params, errorCodeType), lines 83-98, where params is the
\* reference ref into heap h and cat is the value of errorCodeMessages
ResponseError(cat, h, ref, errorCodeType) ==
  LET params == h[ref]
      error == Get(params, "error")
      error_description == Get(params, "error_description")
      error_uri == Get(params, "error_uri")
      table == GetProp(cat, Root, errorCodeType)
  IN IF ReadThrows(table)
     THEN [threw |-> TRUE, error |-> NoError, heap |-> h, catalog |-> cat]
     ELSE LET message == GetProp(cat, table, error.v)
              stored == StoreParams(h, ref)
          IN [threw |-> FALSE,
              error |-> [code |-> error.v,
                         message |-> ErrorMessage(message, error_description),
                         description |-> Description(message, error_description),
                         uri |-> error_uri,
                         params |-> stored.params,
                         state |-> Undefined],
              heap |-> stored.heap,
              catalog |-> cat]

\* variant of AuthCategory: a category named by the record is used
AuthCategoryFromRecord(response) ==
  IF ExtraKey \in DOMAIN response THEN response[ExtraKey] ELSE "auth"

\* line 111: the category AuthError passes to super()
AuthCategory(response) == "auth"

\* variant of AuthState: the assignment of line 112 is missing
AuthStateMissing(response) == Undefined

\* line 112: this.state = response.state
AuthState(response) == Get(response, "state")

\* new AuthError(response), lines 110-113
AuthError(cat, h, ref) ==
  LET r == ResponseError(cat, h, ref, AuthCategory(h[ref]))
  IN IF r.threw THEN r
     ELSE [r EXCEPT !.error.state = AuthState(r.heap[ref])]

(* ---------------------------- the system ------------------------------- *)

\* one input record built by the caller, no error constructed yet
Init ==
  /\ \E r \in InputRecords : heap = <<r>>
  /\ calls = <<>>
  /\ catalog = errorCodeMessages
  /\ mutations = 0

Refs == 1..1

Record(class, type, ref, r) ==
  [class |-> class, type |-> type, ref |-> ref, input |-> heap[ref],
   threw |-> r.threw, result |-> r.error]

\* the caller runs new ResponseError(heap[ref], type)
NewResponseError(ref, type) ==
  /\ Len(calls) < MaxCalls
  /\ LET r == ResponseError(catalog, heap, ref, type)
     IN /\ calls' = Append(calls, Record("ResponseError", type, ref, r))
        /\ heap' = r.heap
        /\ catalog' = r.catalog
  /\ UNCHANGED mutations

\* the caller runs new AuthError(heap[ref])
NewAuthError(ref) ==
  /\ Len(calls) < MaxCalls
  /\ LET r == AuthError(catalog, heap, ref)
     IN /\ calls' = Append(calls, Record("AuthError", "auth", ref, r))
        /\ heap' = r.heap
        /\ catalog' = r.catalog
  /\ UNCHANGED mutations

\* the fields the caller changes after construction, and the values it assigns
MutableKeys == {"error", "error_description", "state"}
AssignedValues(key) ==
  IF key = "error" THEN {"totally_made_up"} ELSE ValuesOf(key)

\* the caller assigns a field of a record it holds: rec[key] = value.  (A
\* change made before the first construction only yields another initial
\* record, so the caller's changes are taken after a construction.)
CallerSet(ref, key, value) ==
  /\ mutations < MaxMutations
  /\ Len(calls) > 0
  /\ Get(heap[ref], key) # Str(value)
  /\ heap' = [heap EXCEPT ![ref] =
                [k \in DOMAIN heap[ref] \cup {key} |->
                    IF k = key THEN value ELSE heap[ref][k]]]
  /\ mutations' = mutations + 1
  /\ UNCHANGED <<calls, catalog>>

\* the caller removes a field of a record it holds: delete rec[key]
CallerDelete(ref, key) ==
  /\ mutations < MaxMutations
  /\ Len(calls) > 0
  /\ key \in DOMAIN heap[ref]
  /\ heap' = [heap EXCEPT ![ref] = [k \in DOMAIN heap[ref] \ {key} |-> heap[ref][k]]]
  /\ mutations' = mutations + 1
  /\ UNCHANGED <<calls, catalog>>

Next ==
  \/ \E ref \in Refs, type \in Categories : NewResponseError(ref, type)
  \/ \E ref \in Refs : NewAuthError(ref)
  \/ \E ref \in Refs, key \in MutableKeys :
       \E value \in AssignedValues(key) : CallerSet(ref, key, value)
  \/ \E ref \in Refs, key \in MutableKeys \cap OptionalKeys : CallerDelete(ref, key)

Spec == Init /\ [][Next]_vars

(* ---------------------------- properties ------------------------------- *)

Call(i) == calls[i]
HasDescription(input) == "error_description" \in DOMAIN input
Without(input, key) == [k \in DOMAIN input \ {key} |-> input[k]]
With(input, key, value) ==
  [k \in DOMAIN input \cup {key} |-> IF k = key THEN value ELSE input[k]]
SameFields(e1, e2) ==
  /\ e1.code = e2.code
  /\ e1.message = e2.message
  /\ e1.description = e2.description
  /\ e1.uri = e2.uri

\* C1 (as claimed): for every code that is not one of the 16 keys of the
\* "auth" catalog, construction against "auth" from an input without
\* error_description does not throw and yields the message
\* "An unknown error occurred".
C1_UnknownCodeFallback ==
  \A i \in DOMAIN calls :
    (/\ Call(i).type = "auth"
     /\ Call(i).input.error \notin KnownCodes
     /\ ~HasDescription(Call(i).input))
    => /\ ~Call(i).threw
       /\ Call(i).result.message = "An unknown error occurred"

\* C2 (as claimed): ResponseError construction with a category that is not a
\* key of the catalog does not throw, and its message is error_description
\* verbatim if present, otherwise "An unknown error occurred".
C2_UnknownCategoryTolerated ==
  \A i \in DOMAIN calls :
    (Call(i).class = "ResponseError" /\ Call(i).type \notin DOMAIN errorCodeMessages)
    => /\ ~Call(i).threw
       /\ Call(i).result.message =
            (IF HasDescription(Call(i).input)
             THEN Call(i).input.error_description
             ELSE "An unknown error occurred")

\* C3 (as claimed): for every code not in the "auth" catalog and every
\* present error_description d, the empty string included, the message
\* equals d exactly.
C3_UnknownCodeDescriptionVerbatim ==
  \A i \in DOMAIN calls :
    (/\ Call(i).type = "auth"
     /\ Call(i).input.error \notin KnownCodes
     /\ HasDescription(Call(i).input))
    => /\ ~Call(i).threw
       /\ Call(i).result.message = Call(i).input.error_description

\* C4: for each of the 16 known "auth" codes c, the message is the catalog
\* message alone when error_description is absent or empty, and the catalog
\* message followed by a newline, "More info: " and d when error_description
\* is a non-empty d.
C4_KnownCodeMessage ==
  \A i \in DOMAIN calls :
    (Call(i).type = "auth" /\ Call(i).input.error \in KnownCodes)
    => /\ ~Call(i).threw
       /\ Call(i).result.message =
            (IF HasDescription(Call(i).input) /\ Call(i).input.error_description # ""
             THEN errorCodeMessages.auth[Call(i).input.error]
                    \o "\nMore info: " \o Call(i).input.error_description
             ELSE errorCodeMessages.auth[Call(i).input.error])

\* C4 witness: a known code was constructed once with an empty and once with
\* a non-empty error_description.
C4_Witness ==
  \E i, j \in DOMAIN calls :
    /\ Call(i).type = "auth" /\ Call(j).type = "auth"
    /\ Call(i).input.error = "invalid_scope" /\ Call(j).input.error = "invalid_scope"
    /\ HasDescription(Call(i).input) /\ Call(i).input.error_description = ""
    /\ Call(i).result.message = "The requested scope is invalid, unknown, or malformed."
    /\ HasDescription(Call(j).input) /\ Call(j).input.error_description = "custom text"
    /\ Call(j).result.message =
         "The requested scope is invalid, unknown, or malformed.\nMore info: custom text"

\* C5 (as claimed): the description of every constructed error equals
\* error_description when that is present, otherwise the catalog message for
\* (category, error), and is absent when neither exists.
C5_DescriptionDefault ==
  \A i \in DOMAIN calls :
    ~Call(i).threw
    => Call(i).result.description =
         (IF HasDescription(Call(i).input)
          THEN Str(Call(i).input.error_description)
          ELSE IF Call(i).type \in DOMAIN errorCodeMessages
                  /\ Call(i).input.error \in DOMAIN errorCodeMessages[Call(i).type]
               THEN Str(errorCodeMessages[Call(i).type][Call(i).input.error])
               ELSE Undefined)

\* C6 (as claimed): the params of a constructed error equals the input
\* record as it was at construction, whatever the caller does to the record
\* afterwards.
C6_ParamsSnapshot ==
  \A i \in DOMAIN calls :
    ~Call(i).threw => heap[Call(i).result.params] = Call(i).input

\* C6 (amended): the params of a constructed error is the very record the
\* caller passed in, not a copy: it always equals the current contents of
\* that record, and equals the record as it was at construction as long as
\* the caller has not changed the record.
C6_ParamsAliasesInput ==
  \A i \in DOMAIN calls :
    ~Call(i).threw
    => /\ Call(i).result.params = Call(i).ref
       /\ heap[Call(i).result.params] = heap[Call(i).ref]
       /\ (mutations = 0 => heap[Call(i).result.params] = Call(i).input)

\* C6 witness: the caller changed the record after a construction and the
\* error's params shows the change.
C6_Witness ==
  \E i \in DOMAIN calls :
    /\ ~Call(i).threw
    /\ mutations > 0
    /\ heap[Call(i).ref] # Call(i).input
    /\ heap[Call(i).result.params] = heap[Call(i).ref]

\* C7: immediately after a construction the error's params equals the full
\* input record, extra fields included, and the input record is unchanged.
C7_ParamsEqualInput ==
  [][Len(calls') = Len(calls) + 1
     => LET c == calls'[Len(calls')]
        IN /\ \A r \in DOMAIN heap : heap'[r] = heap[r]
           /\ ~c.threw => heap'[c.result.params] = heap[c.ref]]_vars

\* C7 witness: an error constructed from a record with an extra field holds
\* that field in its params.
C7_Witness ==
  \E i \in DOMAIN calls :
    /\ ~Call(i).threw
    /\ mutations = 0
    /\ ExtraKey \in DOMAIN Call(i).input
    /\ ExtraKey \in DOMAIN heap[Call(i).result.params]
    /\ heap[Call(i).result.params] = Call(i).input

\* C8: AuthError construction never throws and resolves code, message,
\* description and uri as ResponseError construction with category "auth"
\* does for the same record, whether or not the record carries a
\* category-like extra field.
C8_AuthErrorUsesAuth ==
  \A i \in DOMAIN calls :
    Call(i).class = "AuthError"
    => LET same == ResponseError(errorCodeMessages, <<Call(i).input>>, 1, "auth")
           bare == ResponseError(errorCodeMessages, <<Without(Call(i).input, ExtraKey)>>, 1, "auth")
       IN /\ ~Call(i).threw
          /\ Call(i).type = "auth"
          /\ SameFields(Call(i).result, same.error)
          /\ SameFields(Call(i).result, bare.error)

\* C8 witness: an AuthError built from a record whose extra field names
\* another category carries the "auth" catalog message.
C8_Witness ==
  \E i \in DOMAIN calls :
    /\ Call(i).class = "AuthError"
    /\ ~Call(i).threw
    /\ ExtraKey \in DOMAIN Call(i).input
    /\ Call(i).input[ExtraKey] = "token"
    /\ Call(i).input.error = "access_denied"
    /\ ~HasDescription(Call(i).input)
    /\ Call(i).result.message = errorCodeMessages.auth.access_denied

\* C9: the state of an AuthError equals response.state when present and is
\* undefined when omitted, and code, message, description and uri are the
\* same whatever the state is.
C9_StatePassThrough ==
  \A i \in DOMAIN calls :
    Call(i).class = "AuthError"
    => LET none == AuthError(errorCodeMessages, <<Without(Call(i).input, "state")>>, 1)
           other == AuthError(errorCodeMessages, <<With(Call(i).input, "state", "other")>>, 1)
       IN /\ ~Call(i).threw
          /\ Call(i).result.state = Get(Call(i).input, "state")
          /\ none.error.state = Undefined
          /\ SameFields(Call(i).result, none.error)
          /\ SameFields(Call(i).result, other.error)

\* C9 witness: one AuthError was built with a state and, after the caller
\* removed the state, one without.
C9_Witness ==
  \E i, j \in DOMAIN calls :
    /\ Call(i).class = "AuthError" /\ Call(j).class = "AuthError"
    /\ "state" \in DOMAIN Call(i).input
    /\ Call(i).result.state = Str("xyz")
    /\ "state" \notin DOMAIN Call(j).input
    /\ Call(j).result.state = Undefined

====
